---- MODULE Spec2Model ----
(***************************************************************************)
(* Verification model of IceCodeNew/mtg:                                   *)
(*   - mtglib stream context (streamContext, newStreamContext, Close)      *)
(*   - antireplay.noop and cli.makeAntiReplayCache                         *)
(*   - cli.makeIPBlocklist / cli.makeIPAllowlist and the IP gate           *)
(*   - cli.runProxy start-up and shutdown, utils.Listener.Accept           *)
(* Each component has its own specification over the shared variables; the *)
(* variables of the other components stay at their initial values.         *)
(***************************************************************************)
EXTENDS Integers, Sequences, FiniteSets, TLC

\* ---------------------------------------------------------------- bounds
MaxStreams == 2
MaxCloseCalls == 2
MaxLen == 2
MaxCalls == 3
AddrBits == 2
MaxUrls == 1
MaxProxies == 2
MaxAccepts == 2

Streams == 1..MaxStreams

VARIABLES
  rootCtx,        \* Err() of the root process context: "nil" | "Canceled"
  children,       \* stream contexts registered as children of the root context
  pc,             \* per stream: "none" | "serving" | "released"
  ctx,            \* per stream: Err() of streamContext.ctx
  clientConn,     \* per stream: "nil" | "open" | "closed"
  telegramConn,   \* per stream: "nil" | "open" | "closed"
  clientCloses,   \* per stream: number of clientConn.Close() calls
  telegramCloses, \* per stream: number of telegramConn.Close() calls
  closeCalls,     \* per stream: number of streamContext.Close() calls
  infoErrors      \* per stream: number of logger.InfoError calls

VARIABLES
  antiReplayEnabled, \* conf.Defense.AntiReplay.Enabled: "unset" | "true" | "false"
  antiReplayCache,   \* opts.AntiReplayCache: "nil" | "noop" | "bloom"
  bloomCells,        \* cells set in the stable Bloom filter
  seenLog            \* the SeenBefore calls made so far: [x, seen]

VARIABLES
  blocklistConf,  \* conf.Defense.Blocklist: [enabled, urls]
  allowlistConf,  \* conf.Defense.Allowlist: [enabled, urls]
  ipBlocklist,    \* opts.IPBlocklist: [kind, nets], kind "nil" before it is built
  ipAllowlist,    \* opts.IPAllowlist: [kind, nets], kind "nil" before it is built
  lastScreen      \* the last IP gate decision: <<>> or <<[ip, pass]>>

VARIABLES
  runConf,        \* [statsd, prometheus, proxies] of the configuration
  runPc,          \* position of runProxy
  runErr,         \* the error runProxy returned ("nil" while running)
  built,          \* construction steps of runProxy that completed
  failed,         \* the construction step that failed, "none" otherwise
  listenerState,  \* "none" | "open" | "closed"
  listenerCloses, \* number of listener.Close() calls
  shutdownCalls,  \* number of proxy.Shutdown() calls
  acceptLog,      \* results of the Listener.Accept calls of proxy.Serve
  runInfoErrors   \* number of logger.InfoError calls of runProxy

streamVars == <<children, pc, ctx, clientConn, telegramConn,
                clientCloses, telegramCloses, closeCalls, infoErrors>>
replayVars == <<antiReplayEnabled, antiReplayCache, bloomCells, seenLog>>
gateVars == <<blocklistConf, allowlistConf, ipBlocklist, ipAllowlist, lastScreen>>
runVars == <<runConf, runPc, runErr, built, failed, listenerState,
             listenerCloses, shutdownCalls, acceptLog, runInfoErrors>>

vars == <<rootCtx, streamVars, replayVars, gateVars, runVars>>

\* ------------------------------------------------------- stream context

\* streamContext.Done(): the channel of s.ctx is closed
Done(s) == ctx[s] # "nil"

\* streamContext.Err()
Err(s) == ctx[s]

\* context.WithCancel(parent): the derived context is cancelled at once when
\* the parent already is, and is registered as a child otherwise.
WithCancel(parentErr) == parentErr

\* essentials.Conn.Close(): closes the connection; a connection that is
\* already closed reports an error.
ConnCloseErr(conn) == conn = "closed"

\* the number of InfoError calls one Close() makes on stream s
CloseErrors(s) ==
  (IF clientConn[s] # "nil" /\ ConnCloseErr(clientConn[s]) THEN 1 ELSE 0)
  + (IF telegramConn[s] # "nil" /\ ConnCloseErr(telegramConn[s]) THEN 1 ELSE 0)

\* streamContext.Close() with the upstream leg forgotten
CloseClientOnly(s) ==
  /\ ctx' = [ctx EXCEPT ![s] = "Canceled"]
  /\ children' = children \ {s}
  /\ IF clientConn[s] # "nil"
       THEN /\ clientConn' = [clientConn EXCEPT ![s] = "closed"]
            /\ clientCloses' = [clientCloses EXCEPT ![s] = @ + 1]
       ELSE UNCHANGED <<clientConn, clientCloses>>
  /\ UNCHANGED <<telegramConn, telegramCloses>>
  /\ infoErrors' = [infoErrors EXCEPT ![s] = @ + CloseErrors(s)]
  /\ closeCalls' = [closeCalls EXCEPT ![s] = @ + 1]

\* streamContext.Close() that returns early on a context that is already done
CloseUnlessDone(s) ==
  /\ ctx' = [ctx EXCEPT ![s] = "Canceled"]
  /\ children' = children \ {s}
  /\ IF clientConn[s] # "nil" /\ ~Done(s)
       THEN /\ clientConn' = [clientConn EXCEPT ![s] = "closed"]
            /\ clientCloses' = [clientCloses EXCEPT ![s] = @ + 1]
       ELSE UNCHANGED <<clientConn, clientCloses>>
  /\ IF telegramConn[s] # "nil" /\ ~Done(s)
       THEN /\ telegramConn' = [telegramConn EXCEPT ![s] = "closed"]
            /\ telegramCloses' = [telegramCloses EXCEPT ![s] = @ + 1]
       ELSE UNCHANGED <<telegramConn, telegramCloses>>
  /\ UNCHANGED infoErrors
  /\ closeCalls' = [closeCalls EXCEPT ![s] = @ + 1]

\* streamContext.Close(): ctxCancel(), then Close() of each non-nil connection
Close(s) ==
  /\ ctx' = [ctx EXCEPT ![s] = "Canceled"]
  /\ children' = children \ {s}
  /\ IF clientConn[s] # "nil"
       THEN /\ clientConn' = [clientConn EXCEPT ![s] = "closed"]
            /\ clientCloses' = [clientCloses EXCEPT ![s] = @ + 1]
       ELSE UNCHANGED <<clientConn, clientCloses>>
  /\ IF telegramConn[s] # "nil"
       THEN /\ telegramConn' = [telegramConn EXCEPT ![s] = "closed"]
            /\ telegramCloses' = [telegramCloses EXCEPT ![s] = @ + 1]
       ELSE UNCHANGED <<telegramConn, telegramCloses>>
  /\ infoErrors' = [infoErrors EXCEPT ![s] = @ + CloseErrors(s)]
  /\ closeCalls' = [closeCalls EXCEPT ![s] = @ + 1]

\* newStreamContext with a context that is not derived from the root
NewDetachedStreamContext(s) ==
  /\ pc[s] = "none"
  /\ ctx' = [ctx EXCEPT ![s] = "nil"]
  /\ UNCHANGED children
  /\ clientConn' = [clientConn EXCEPT ![s] = "open"]
  /\ pc' = [pc EXCEPT ![s] = "serving"]
  /\ UNCHANGED <<rootCtx, telegramConn, clientCloses, telegramCloses,
                 closeCalls, infoErrors>>
  /\ UNCHANGED <<replayVars, gateVars, runVars>>

\* newStreamContext(ctx, logger, clientConn)
newStreamContext(s) ==
  /\ pc[s] = "none"
  /\ ctx' = [ctx EXCEPT ![s] = WithCancel(rootCtx)]
  /\ children' = IF rootCtx = "nil" THEN children \cup {s} ELSE children
  /\ clientConn' = [clientConn EXCEPT ![s] = "open"]
  /\ pc' = [pc EXCEPT ![s] = "serving"]
  /\ UNCHANGED <<rootCtx, telegramConn, clientCloses, telegramCloses,
                 closeCalls, infoErrors>>
  /\ UNCHANGED <<replayVars, gateVars, runVars>>

\* the handler assigns the upstream connection once it is chosen
AssignTelegramConn(s) ==
  /\ pc[s] = "serving"
  /\ telegramConn[s] = "nil"
  /\ telegramConn' = [telegramConn EXCEPT ![s] = "open"]
  /\ UNCHANGED <<rootCtx, children, pc, ctx, clientConn, clientCloses,
                 telegramCloses, closeCalls, infoErrors>>
  /\ UNCHANGED <<replayVars, gateVars, runVars>>

\* a Close() call on a live stream context (any caller, any number of times)
CloseCall(s) ==
  /\ pc[s] # "none"
  /\ closeCalls[s] < MaxCloseCalls
  /\ Close(s)
  /\ UNCHANGED <<rootCtx, pc>>
  /\ UNCHANGED <<replayVars, gateVars, runVars>>

\* the handler of the connection ends (relay, fallback or terminal error) and
\* releases the stream context
Release(s) ==
  /\ pc[s] = "serving"
  /\ Close(s)
  /\ pc' = [pc EXCEPT ![s] = "released"]
  /\ UNCHANGED rootCtx
  /\ UNCHANGED <<replayVars, gateVars, runVars>>

\* cancellation of the root context: every registered child is cancelled
CancelRoot ==
  /\ rootCtx = "nil"
  /\ rootCtx' = "Canceled"
  /\ ctx' = [s \in Streams |-> IF s \in children THEN "Canceled" ELSE ctx[s]]
  /\ children' = {}
  /\ UNCHANGED <<pc, clientConn, telegramConn, clientCloses, telegramCloses,
                 closeCalls, infoErrors>>
  /\ UNCHANGED <<replayVars, gateVars, runVars>>

StreamIdle ==
  /\ children = {}
  /\ pc = [s \in Streams |-> "none"]
  /\ ctx = [s \in Streams |-> "nil"]
  /\ clientConn = [s \in Streams |-> "nil"]
  /\ telegramConn = [s \in Streams |-> "nil"]
  /\ clientCloses = [s \in Streams |-> 0]
  /\ telegramCloses = [s \in Streams |-> 0]
  /\ closeCalls = [s \in Streams |-> 0]
  /\ infoErrors = [s \in Streams |-> 0]

\* ------------------------------------------------------------ configuration

OptBool == {"unset", "true", "false"}

\* config.TypeBool.Get(defaultValue): the default when the option is unset
Get(opt, defaultValue) == IF opt = "unset" THEN defaultValue ELSE opt = "true"

\* --------------------------------------------------------- anti-replay gate

Bytes == {0, 1}

\* byte strings of at most MaxLen bytes
RECURSIVE StringsUpTo(_)
StringsUpTo(n) ==
  IF n = 0 THEN {<<>>}
  ELSE LET shorter == StringsUpTo(n - 1)
       IN shorter \cup {Append(x, b) : x \in {y \in shorter : Len(y) = n - 1}, b \in Bytes}

ByteStrings == StringsUpTo(MaxLen)

RECURSIVE SumBytes(_)
SumBytes(x) == IF x = <<>> THEN 0 ELSE Head(x) + SumBytes(Tail(x))

\* number of cells of the stable Bloom filter
BloomSize == 4

\* the cells the stable Bloom filter touches for x (two hash functions)
BloomHashes(x) == {(Len(x) + 2 * SumBytes(x)) % BloomSize,
                   (3 * Len(x) + SumBytes(x) + 1) % BloomSize}

\* stable Bloom filter: x is reported when all of its cells are set
BloomSeenBefore(x) == BloomHashes(x) \subseteq bloomCells

\* a SeenBefore whose answer alternates from call to call
FlipSeenBefore(x) == Len(seenLog) % 2 = 0

\* noop.SeenBefore
NoopSeenBefore(x) == FALSE

\* makeAntiReplayCache with the condition inverted
makeAntiReplayCacheInverted(enabled) ==
  IF Get(enabled, FALSE) THEN "noop" ELSE "bloom"

\* makeAntiReplayCache(conf)
makeAntiReplayCache(enabled) ==
  IF ~Get(enabled, FALSE) THEN "noop" ELSE "bloom"

\* AntiReplayCache.SeenBefore(x) on the installed cache
SeenBefore(x) ==
  /\ antiReplayCache # "nil"
  /\ "proxy" \in built
  /\ Len(seenLog) < MaxCalls
  /\ LET seen == IF antiReplayCache = "noop" THEN NoopSeenBefore(x)
                 ELSE BloomSeenBefore(x)
     IN seenLog' = Append(seenLog, [x |-> x, seen |-> seen])
  /\ bloomCells' = IF antiReplayCache = "bloom"
                     THEN bloomCells \cup BloomHashes(x) ELSE bloomCells
  /\ UNCHANGED <<antiReplayEnabled, antiReplayCache>>
  /\ UNCHANGED <<rootCtx, streamVars, gateVars, runVars>>

ReplayIdle ==
  /\ antiReplayEnabled = "unset"
  /\ antiReplayCache = "nil"
  /\ bloomCells = {}
  /\ seenLog = <<>>

\* ------------------------------------------------------------------ IP gate

RECURSIVE Pow2(_)
Pow2(n) == IF n = 0 THEN 1 ELSE 2 * Pow2(n - 1)

Families == {4, 6}

\* addresses of AddrBits bits in each family
IPs == [fam : Families, addr : 0..(Pow2(AddrBits) - 1)]

\* networks: family, base address and prefix length
Nets == {n \in [fam : Families, base : 0..(Pow2(AddrBits) - 1), len : 0..AddrBits] :
           n.base % Pow2(AddrBits - n.len) = 0}

\* cidranger.AllIPv4 and cidranger.AllIPv6
AllIPv4 == [fam |-> 4, base |-> 0, len |-> 0]
AllIPv6 == [fam |-> 6, base |-> 0, len |-> 0]

\* net.IPNet.Contains
NetContains(n, ip) ==
  /\ n.fam = ip.fam
  /\ ip.addr \div Pow2(AddrBits - n.len) = n.base \div Pow2(AddrBits - n.len)

\* the networks the configured URLs and files of a list may hold: half of the
\* IPv4 space, all of it, and a single IPv6 address
ConfNets == {[fam |-> 4, base |-> 0, len |-> 1],
             [fam |-> 4, base |-> 0, len |-> 0],
             [fam |-> 6, base |-> 1, len |-> AddrBits]}

ListConfs == [enabled : OptBool,
              urls : {u \in SUBSET ConfNets : Cardinality(u) <= MaxUrls}]

\* no list built yet (a nil mtglib.IPBlocklist)
NilList == [kind |-> "nil", nets |-> {}]

\* ipblocklist.NewNoop()
NewNoop == [kind |-> "noop", nets |-> {}]

\* ipblocklist.NewFirehol / NewFireholFromFiles over the given networks
NewFirehol(nets) == [kind |-> "firehol", nets |-> nets]

\* IPBlocklist.Contains(ip)
Contains(list, ip) ==
  IF list.kind = "noop" THEN FALSE
  ELSE \E n \in list.nets : NetContains(n, ip)

\* makeIPBlocklist(conf, ...): fireholOk is the outcome of NewFirehol
makeIPBlocklist(conf, fireholOk) ==
  IF ~Get(conf.enabled, FALSE) THEN [list |-> NewNoop, err |-> "nil"]
  ELSE IF ~fireholOk
         THEN [list |-> NilList, err |-> "incorrect parameters for firehol"]
         ELSE [list |-> NewFirehol(conf.urls), err |-> "nil"]

\* makeIPAllowlist whose built-in list misses cidranger.AllIPv6
makeIPAllowlistV4Only(conf, fireholOk) ==
  LET r == IF ~Get(conf.enabled, FALSE)
             THEN [list |-> NewFirehol({AllIPv4}), err |-> "nil"]
             ELSE makeIPBlocklist(conf, fireholOk)
  IN IF r.err # "nil" THEN [list |-> NilList, err |-> "cannot build allowlist"]
     ELSE r

\* makeIPAllowlist(conf, ...)
makeIPAllowlist(conf, fireholOk) ==
  LET r == IF ~Get(conf.enabled, FALSE)
             THEN [list |-> NewFirehol({AllIPv4, AllIPv6}), err |-> "nil"]
             ELSE makeIPBlocklist(conf, fireholOk)
  IN IF r.err # "nil" THEN [list |-> NilList, err |-> "cannot build allowlist"]
     ELSE r

\* the IP gate: the allowlist contains the IP and the blocklist does not
GatePass(ip) == Contains(ipAllowlist, ip) /\ ~Contains(ipBlocklist, ip)

\* a connection from ip is screened by the IP gate
Screen(ip) ==
  /\ ipBlocklist # NilList
  /\ ipAllowlist # NilList
  /\ runPc = "proxy"
  /\ lastScreen' = <<[ip |-> ip, pass |-> GatePass(ip)]>>
  /\ UNCHANGED <<blocklistConf, allowlistConf, ipBlocklist, ipAllowlist>>
  /\ UNCHANGED <<rootCtx, streamVars, replayVars, runVars>>

NoListConf == [enabled |-> "unset", urls |-> {}]

GateIdle ==
  /\ blocklistConf = NoListConf
  /\ allowlistConf = NoListConf
  /\ ipBlocklist = NilList
  /\ ipAllowlist = NilList
  /\ lastScreen = <<>>

\* ----------------------------------------------------------------- runProxy

\* the construction steps of runProxy, in order, and the wait that follows
StepOrder == <<"eventStream", "network", "blocklist", "allowlist", "proxy",
               "listener", "serve", "wait">>

StepIndex(step) == CHOOSE i \in 1..Len(StepOrder) : StepOrder[i] = step

\* the steps that precede step
StepsBefore(step) == {StepOrder[i] : i \in 1..(StepIndex(step) - 1)}

\* the error runProxy returns when a step fails
RunErrors == [eventStream |-> "cannot build event stream",
              network |-> "cannot build network",
              blocklist |-> "cannot build ip blocklist",
              allowlist |-> "cannot build ip allowlist",
              proxy |-> "cannot create a proxy",
              listener |-> "cannot start proxy"]

\* makeEventStream(conf, logger): statsdOk and listenOk are the outcomes of
\* stats.NewStatsd and net.Listen
makeEventStream(conf, statsdOk, listenOk) ==
  IF Get(conf.statsd, FALSE) /\ ~statsdOk
    THEN "cannot build statsd observer"
  ELSE IF Get(conf.prometheus, FALSE) /\ ~listenOk
    THEN "cannot start a listener for prometheus"
  ELSE "nil"

\* makeNetwork(conf, version): dialerOk, socksOk and networkOk are the
\* outcomes of NewDefaultDialer, New(LoadBalanced)Socks5Dialer and NewNetwork
makeNetwork(conf, dialerOk, socksOk, networkOk) ==
  IF ~dialerOk THEN "cannot build a default dialer"
  ELSE IF conf.proxies = 0
    THEN IF networkOk THEN "nil" ELSE "network"
  ELSE IF ~socksOk THEN "cannot build socks5 dialer"
  ELSE IF networkOk THEN "nil" ELSE "network"

\* runProxy going on after a failed allowlist step
AfterStepLenient(step, err) ==
  IF err # "nil" /\ step # "allowlist"
    THEN [pc |-> "returned", err |-> RunErrors[step]]
    ELSE [pc |-> StepOrder[StepIndex(step) + 1], err |-> "nil"]

\* runProxy after a construction step: return the wrapped error, or go on
AfterStep(step, err) ==
  IF err # "nil"
    THEN [pc |-> "returned", err |-> RunErrors[step]]
    ELSE [pc |-> StepOrder[StepIndex(step) + 1], err |-> "nil"]

Advance(step, err) ==
  LET r == AfterStep(step, err)
  IN /\ runPc' = r.pc
     /\ runErr' = r.err
     /\ built' = IF err = "nil" THEN built \cup {step} ELSE built
     /\ failed' = IF err = "nil" THEN failed ELSE step

\* eventStream, err := makeEventStream(conf, logger)
RunEventStream ==
  /\ runPc = "eventStream"
  /\ \E statsdOk, listenOk \in BOOLEAN :
       Advance("eventStream", makeEventStream(runConf, statsdOk, listenOk))
  /\ UNCHANGED <<runConf, listenerState, listenerCloses, shutdownCalls,
                 acceptLog, runInfoErrors>>
  /\ UNCHANGED <<rootCtx, streamVars, replayVars, gateVars>>

\* ntw, err := makeNetwork(conf, version)
RunNetwork ==
  /\ runPc = "network"
  /\ \E dialerOk, socksOk, networkOk \in BOOLEAN :
       Advance("network", makeNetwork(runConf, dialerOk, socksOk, networkOk))
  /\ UNCHANGED <<runConf, listenerState, listenerCloses, shutdownCalls,
                 acceptLog, runInfoErrors>>
  /\ UNCHANGED <<rootCtx, streamVars, replayVars, gateVars>>

\* blocklist, err := makeIPBlocklist(conf.Defense.Blocklist, ...)
RunBlocklist ==
  /\ runPc = "blocklist"
  /\ \E fireholOk \in BOOLEAN :
       LET r == makeIPBlocklist(blocklistConf, fireholOk)
       IN /\ Advance("blocklist", r.err)
          /\ ipBlocklist' = r.list
  /\ UNCHANGED <<blocklistConf, allowlistConf, ipAllowlist, lastScreen>>
  /\ UNCHANGED <<runConf, listenerState, listenerCloses, shutdownCalls,
                 acceptLog, runInfoErrors>>
  /\ UNCHANGED <<rootCtx, streamVars, replayVars>>

\* allowlist, err := makeIPAllowlist(conf.Defense.Allowlist, ...)
RunAllowlist ==
  /\ runPc = "allowlist"
  /\ \E fireholOk \in BOOLEAN :
       LET r == makeIPAllowlist(allowlistConf, fireholOk)
       IN /\ Advance("allowlist", r.err)
          /\ ipAllowlist' = r.list
  /\ UNCHANGED <<blocklistConf, allowlistConf, ipBlocklist, lastScreen>>
  /\ UNCHANGED <<runConf, listenerState, listenerCloses, shutdownCalls,
                 acceptLog, runInfoErrors>>
  /\ UNCHANGED <<rootCtx, streamVars, replayVars>>

\* opts := mtglib.ProxyOpts{...}; proxy, err := mtglib.NewProxy(opts)
RunNewProxy ==
  /\ runPc = "proxy"
  /\ antiReplayCache = "nil"
  /\ antiReplayCache' = makeAntiReplayCache(antiReplayEnabled)
  /\ \E proxyOk \in BOOLEAN :
       Advance("proxy", IF proxyOk THEN "nil" ELSE "invalid settings")
  /\ UNCHANGED <<antiReplayEnabled, bloomCells, seenLog>>
  /\ UNCHANGED <<runConf, listenerState, listenerCloses, shutdownCalls,
                 acceptLog, runInfoErrors>>
  /\ UNCHANGED <<rootCtx, streamVars, gateVars>>

\* listener, err := utils.NewListener(conf.BindTo.Get(""), 0)
RunListener ==
  /\ runPc = "listener"
  /\ \E listenOk \in BOOLEAN :
       /\ Advance("listener",
                  IF listenOk THEN "nil" ELSE "cannot build a base listener")
       /\ listenerState' = IF listenOk THEN "open" ELSE "none"
  /\ UNCHANGED <<runConf, listenerCloses, shutdownCalls, acceptLog,
                 runInfoErrors>>
  /\ UNCHANGED <<rootCtx, streamVars, replayVars, gateVars>>

\* ctx := utils.RootContext(); go proxy.Serve(listener)
RunServe ==
  /\ runPc = "serve"
  /\ Advance("serve", "nil")
  /\ UNCHANGED <<runConf, listenerState, listenerCloses, shutdownCalls,
                 acceptLog, runInfoErrors>>
  /\ UNCHANGED <<rootCtx, streamVars, replayVars, gateVars>>

\* the root context is cancelled while runProxy waits on ctx.Done()
RootDone ==
  /\ runPc = "wait"
  /\ rootCtx = "nil"
  /\ rootCtx' = "Canceled"
  /\ UNCHANGED <<streamVars, replayVars, gateVars, runVars>>

\* runProxy returning at once when listener.Close() fails
AfterListenerCloseStrict(closeErr) ==
  IF closeErr THEN "returned" ELSE "shutdown"

\* runProxy after listener.Close(): the error is only logged
AfterListenerClose(closeErr) == "shutdown"

\* <-ctx.Done(); if err := listener.Close(); err != nil { logger.InfoError }
RunCloseListener ==
  /\ runPc = "wait"
  /\ rootCtx = "Canceled"
  /\ \E closeErr \in BOOLEAN :
       /\ runPc' = AfterListenerClose(closeErr)
       /\ runInfoErrors' = runInfoErrors + (IF closeErr THEN 1 ELSE 0)
  /\ listenerState' = "closed"
  /\ listenerCloses' = listenerCloses + 1
  /\ UNCHANGED <<runConf, runErr, built, failed, shutdownCalls, acceptLog>>
  /\ UNCHANGED <<rootCtx, streamVars, replayVars, gateVars>>

\* proxy.Shutdown(); return nil
RunShutdown ==
  /\ runPc = "shutdown"
  /\ shutdownCalls' = shutdownCalls + 1
  /\ runPc' = "returned"
  /\ runErr' = "nil"
  /\ UNCHANGED <<runConf, built, failed, listenerState, listenerCloses,
                 acceptLog, runInfoErrors>>
  /\ UNCHANGED <<rootCtx, streamVars, replayVars, gateVars>>

\* --------------------------------------------------------- Listener.Accept

\* Listener.Accept that leaves the connection open when the options fail
AcceptLeaky(acceptOk, optsOk, closeOk) ==
  IF ~acceptOk
    THEN [raw |-> "nil", conn |-> "nil", err |-> "accept", panic |-> FALSE]
  ELSE IF ~optsOk
    THEN [raw |-> "open", conn |-> "nil", err |-> "cannot set TCP options",
          panic |-> FALSE]
  ELSE [raw |-> "open", conn |-> "raw", err |-> "nil", panic |-> FALSE]

\* Listener.Accept(): acceptOk, optsOk and closeOk are the outcomes of the
\* underlying Accept, of network.SetClientSocketOptions and of conn.Close.
\* raw is the state of the accepted connection, conn and err the results.
Accept(acceptOk, optsOk, closeOk) ==
  IF ~acceptOk
    THEN [raw |-> "nil", conn |-> "nil", err |-> "accept", panic |-> FALSE]
  ELSE IF ~optsOk
    THEN IF ~closeOk
           THEN [raw |-> "open", conn |-> "nil", err |-> "nil", panic |-> TRUE]
           ELSE [raw |-> "closed", conn |-> "nil",
                 err |-> "cannot set TCP options", panic |-> FALSE]
  ELSE [raw |-> "open", conn |-> "raw", err |-> "nil", panic |-> FALSE]

\* proxy.Serve calls listener.Accept(); a closed listener accepts nothing
ServeAccept ==
  /\ "serve" \in built
  /\ runPc \in {"wait", "shutdown"}
  /\ Len(acceptLog) < MaxAccepts
  /\ \E acceptOk, optsOk, closeOk \in BOOLEAN :
       /\ listenerState = "closed" => ~acceptOk
       /\ LET r == Accept(acceptOk, optsOk, closeOk)
          IN /\ acceptLog' = Append(acceptLog, r)
             /\ runPc' = IF r.panic THEN "panicked" ELSE runPc
  /\ UNCHANGED <<runConf, runErr, built, failed, listenerState,
                 listenerCloses, shutdownCalls, runInfoErrors>>
  /\ UNCHANGED <<rootCtx, streamVars, replayVars, gateVars>>

\* runProxy at the given step, with the default configuration
RunAt(step) ==
  /\ runConf = [statsd |-> "unset", prometheus |-> "unset", proxies |-> 0]
  /\ runPc = step
  /\ runErr = "nil"
  /\ built = StepsBefore(step)
  /\ failed = "none"
  /\ listenerState = IF "listener" \in StepsBefore(step) THEN "open" ELSE "none"
  /\ listenerCloses = 0
  /\ shutdownCalls = 0
  /\ acceptLog = <<>>
  /\ runInfoErrors = 0

\* the lists runProxy builds from a configuration without list sections
GateDefault ==
  /\ blocklistConf = NoListConf
  /\ allowlistConf = NoListConf
  /\ ipBlocklist = makeIPBlocklist(NoListConf, TRUE).list
  /\ ipAllowlist = makeIPAllowlist(NoListConf, TRUE).list
  /\ lastScreen = <<>>

\* the cache runProxy installs from a configuration without anti-replay
ReplayDefault ==
  /\ antiReplayEnabled = "unset"
  /\ antiReplayCache = makeAntiReplayCache("unset")
  /\ bloomCells = {}
  /\ seenLog = <<>>

\* ----------------------------------------------------------- specifications

\* stream contexts of a serving proxy
Init == rootCtx = "nil" /\ StreamIdle /\ ReplayDefault /\ GateDefault /\ RunAt("wait")

Next ==
  \/ \E s \in Streams : newStreamContext(s)
  \/ \E s \in Streams : AssignTelegramConn(s)
  \/ \E s \in Streams : CloseCall(s)
  \/ \E s \in Streams : Release(s)
  \/ CancelRoot

Spec == Init /\ [][Next]_vars

\* the handler of every connection eventually ends
FairSpec == Spec /\ \A s \in Streams : WF_vars(Release(s))

\* the anti-replay cache of runProxy
InitReplay ==
  /\ rootCtx = "nil" /\ StreamIdle /\ GateDefault /\ RunAt("proxy")
  /\ antiReplayEnabled \in OptBool
  /\ antiReplayCache = "nil"
  /\ bloomCells = {}
  /\ seenLog = <<>>

NextReplay ==
  \/ RunNewProxy
  \/ \E x \in ByteStrings : SeenBefore(x)

SpecReplay == InitReplay /\ [][NextReplay]_vars

\* the IP lists of runProxy and the IP gate
InitGate ==
  /\ rootCtx = "nil" /\ StreamIdle /\ ReplayIdle /\ RunAt("blocklist")
  /\ blocklistConf \in ListConfs
  /\ allowlistConf \in ListConfs
  /\ ipBlocklist = NilList
  /\ ipAllowlist = NilList
  /\ lastScreen = <<>>

NextGate ==
  \/ RunBlocklist
  \/ RunAllowlist
  \/ \E ip \in IPs : Screen(ip)

SpecGate == InitGate /\ [][NextGate]_vars

\* runProxy from start-up to return, with the Accept calls of proxy.Serve
RunConfs == [statsd : OptBool, prometheus : OptBool, proxies : 0..MaxProxies]

InitRun ==
  /\ rootCtx = "nil" /\ StreamIdle /\ ReplayIdle
  /\ runConf \in RunConfs
  /\ runPc = "eventStream"
  /\ runErr = "nil"
  /\ built = {}
  /\ failed = "none"
  /\ listenerState = "none"
  /\ listenerCloses = 0
  /\ shutdownCalls = 0
  /\ acceptLog = <<>>
  /\ runInfoErrors = 0
  /\ blocklistConf \in [enabled : OptBool, urls : {{}}]
  /\ allowlistConf \in [enabled : OptBool, urls : {{}}]
  /\ ipBlocklist = NilList
  /\ ipAllowlist = NilList
  /\ lastScreen = <<>>

NextRun ==
  \/ RunEventStream
  \/ RunNetwork
  \/ RunBlocklist
  \/ RunAllowlist
  \/ RunNewProxy
  \/ RunListener
  \/ RunServe
  \/ RootDone
  \/ RunCloseListener
  \/ RunShutdown
  \/ ServeAccept

SpecRun == InitRun /\ [][NextRun]_vars

\* ------------------------------------------------------------------- claims

\* C1 (as stated): whatever the number of Close() calls on a stream context,
\* the client connection and the upstream connection are each closed at most
\* once; a later Close() closes nothing again.
C1_ClosedExactlyOnce ==
  \A s \in Streams : clientCloses[s] <= 1 /\ telegramCloses[s] <= 1

\* C2: once the root context is cancelled every stream context derived from
\* it is Done with a non-nil Err; a Close() of one stream context makes that
\* context Done and leaves the root context and every sibling as they were.
C2_Propagation ==
  /\ [](rootCtx = "Canceled" =>
          \A s \in Streams : pc[s] # "none" => Done(s) /\ Err(s) # "nil")
  /\ [][\A s \in Streams :
          closeCalls'[s] > closeCalls[s] =>
            /\ ctx'[s] # "nil"
            /\ rootCtx' = rootCtx
            /\ \A t \in Streams \ {s} : ctx'[t] = ctx[t]]_vars

\* a stream context closed by hand and a sibling that is Done only because
\* the root context was cancelled
C2_Witness ==
  /\ rootCtx = "Canceled"
  /\ \E s, t \in Streams :
       /\ s # t
       /\ closeCalls[s] > 0
       /\ pc[t] = "serving" /\ closeCalls[t] = 0 /\ Done(t)

C8_Release ==
  /\ [](\A s \in Streams :
          pc[s] = "released" =>
            Done(s) /\ clientConn[s] = "closed" /\ telegramConn[s] # "open")
  /\ [][\A s \in Streams :
          (closeCalls'[s] > closeCalls[s] /\ telegramConn[s] = "nil") =>
            /\ telegramConn'[s] = "nil"
            /\ telegramCloses'[s] = telegramCloses[s]
            /\ clientConn'[s] = "closed"
            /\ ctx'[s] = "Canceled"]_vars

\* one connection released with an upstream leg, one released without
C8_Witness ==
  \E s, t \in Streams :
    /\ pc[s] = "released" /\ telegramConn[s] = "closed"
    /\ pc[t] = "released" /\ telegramConn[t] = "nil" /\ clientConn[t] = "closed"

\* the calls i < j of seenLog that present the same byte string
Replays == {p \in (DOMAIN seenLog) \X (DOMAIN seenLog) :
              p[1] < p[2] /\ seenLog[p[1]].x = seenLog[p[2]].x}

C7_AbortStartup ==
  /\ failed # "none" =>
       /\ runPc = "returned"
       /\ runErr = RunErrors[failed]
       /\ built = StepsBefore(failed)
  /\ runErr # "nil" =>
       /\ "serve" \notin built
       /\ acceptLog = <<>>
       /\ shutdownCalls = 0

\* the allowlist step failed after the blocklist step succeeded
C7_Witness ==
  /\ failed = "allowlist"
  /\ runPc = "returned"
  /\ "blocklist" \in built

\* C9: after a successful start-up runProxy does nothing until the root
\* context is done; then the listener is closed before proxy.Shutdown() is
\* called, Shutdown is called exactly once even when closing the listener
\* failed, and runProxy returns nil.
C9_ShutdownOrder ==
  /\ shutdownCalls <= 1
  /\ listenerCloses <= 1
  /\ shutdownCalls = 1 => listenerCloses = 1
  /\ listenerCloses = 1 => rootCtx = "Canceled"
  /\ runPc = "wait" => listenerCloses = 0 /\ shutdownCalls = 0
  /\ runPc = "shutdown" => listenerCloses = 1 /\ shutdownCalls = 0
  /\ (runPc = "returned" /\ "serve" \in built) =>
       runErr = "nil" /\ shutdownCalls = 1 /\ listenerCloses = 1

\* runProxy returned after a shutdown in which listener.Close() failed
C9_Witness ==
  /\ runPc = "returned"
  /\ "serve" \in built
  /\ runInfoErrors = 1

\* C10: an Accept that returns an error returns no connection and leaves no
\* accepted connection open; a failed underlying Accept touches no
\* connection; a connection is returned only with a nil error, and is open.
C10_AcceptResult ==
  \A i \in DOMAIN acceptLog :
    LET r == acceptLog[i]
    IN ~r.panic =>
         /\ r.err # "nil" => r.conn = "nil" /\ r.raw # "open"
         /\ r.err = "accept" => r.raw = "nil"
         /\ r.err = "nil" => r.conn = "raw" /\ r.raw = "open"
         /\ r.conn # "nil" => r.err = "nil"

\* an Accept whose socket options failed: the connection was closed
C10_Witness ==
  \E i \in DOMAIN acceptLog :
    /\ acceptLog[i].err = "cannot set TCP options"
    /\ acceptLog[i].raw = "closed"

====
